---- MODULE Spec2Model ----
(***************************************************************************)
(* A model of src/path-finding.js: the javascript-astar engine (Graph,     *)
(* GridNode, BinaryHeap, astar.search and its heuristics).                 *)
(*                                                                         *)
(* JavaScript numbers are modelled in fixed point: the number 1.0 is Unit, *)
(* the literal 1.41421 of getCost is DiagFactor and Math.sqrt(2) is Sqrt2  *)
(* (1.4142135..., truncated), so that Sqrt2 > DiagFactor as in the code.   *)
(* Sums and comparisons are exact; floating-point rounding is not modelled.*)
(***************************************************************************)
EXTENDS Integers, Sequences, FiniteSets

\* ------------------------------------------------------------------ bounds
\* The grid handed to Graph() has MaxX rows (index x) of MaxY entries (index y).
MaxX == 2
MaxY == 3
\* The wider grids of SpecWide have MaxWideY entries per row.
MaxWideY == 4
\* At most MaxHeavy cells of the matrix carry a weight above 1.
MaxHeavy == 1
\* The standalone heap holds at most MaxHeap elements with scores 0..MaxScore.
MaxHeap == 4
MaxScore == 2
\* The matrices handed to Graph() in GraphSpec have at most MaxRows rows of at
\* most MaxRowLen entries each.
MaxRows == 2
MaxRowLen == 2
\* The manager is handed at most MaxOps operations.
MaxOps == 4

\* ------------------------------------------------------------------ numbers
\* 1 (the D of the heuristics and the straight-step factor), the 1.41421 of
\* getCost and Math.sqrt(2), in millionths
Unit == 1000000
DiagFactor == 1414210
Sqrt2 == 1414213

\* The weights a cell of the input matrix may carry (0 is a wall).
Weights == {0, 1, 4}

\* The weights of the wider grids of SpecWide
WideWeights == {0, 1, 2}

\* The entries of the matrices of GraphSpec
GridInWeights == {0 - 1, 0, 1}

VARIABLES
    shape,        \* <<gridIn.length, gridIn[0].length>>: the size of the input matrix
    weight,       \* GridNode.weight of every cell
    diagonal,     \* Graph.diagonal
    node,         \* the transient fields f, g, h, visited, closed, parent of every cell
    dirtyNodes,   \* Graph.dirtyNodes
    content,      \* BinaryHeap.content (of openHeap)
    closestNode,  \* local closestNode of astar.search
    start,        \* argument start of the current (or last) search
    end,          \* argument end
    heuristic,    \* options.heuristic: "manhattan" or "diagonal"
    closest,      \* options.closest
    pc,           \* position of the caller / of astar.search
    result,       \* the value returned by the last call
    last,         \* the previous completed search, when it had the same arguments
    operations,   \* db.data.operations: the operations the manager holds
    data,         \* the other keys of db.data: drawIsRun and the operations' flags
    lastOp        \* the last call observed: on the standalone heap, of the constructor,
                  \* or the pass of the while loop with its rescoreElement calls

vars == <<shape, weight, diagonal, node, dirtyNodes, content, closestNode, start, end,
          heuristic, closest, pc, result, last, operations, data, lastOp>>

\* ------------------------------------------------------------------ cells
\* Graph.nodes: one GridNode <<x, y>> per entry of the matrix
Nodes == DOMAIN weight

\* The cells of a rectangular matrix of sh[1] rows of sh[2] entries
Cells(sh) == (0 .. sh[1] - 1) \X (0 .. sh[2] - 1)

\* null / undefined
Null == <<-1, -1>>

None == [args |-> <<>>, path |-> <<>>, some |-> FALSE]

NoOp == [name |-> "none", arg |-> Null, ret |-> Null]

\* db.data as the script leaves it: no key but operations
NoData == [drawIsRun |-> FALSE, flags |-> {}]

Abs(a) == IF a < 0 THEN -a ELSE a

Min(a, b) == IF a < b THEN a ELSE b

Range(s) == {s[i] : i \in 1 .. Len(s)}

\* new GridNode + astar.cleanNode: the transient fields of a clean cell
cleanNodeKeepVisited(r) ==
    [f |-> 0, g |-> 0, h |-> 0, visited |-> r.visited, closed |-> FALSE, parent |-> Null]

cleanNode(r) ==
    [f |-> 0, g |-> 0, h |-> 0, visited |-> FALSE, closed |-> FALSE, parent |-> Null]

IsClean(r) ==
    /\ r.f = 0
    /\ r.g = 0
    /\ r.h = 0
    /\ r.visited = FALSE
    /\ r.closed = FALSE
    /\ r.parent = Null

\* Graph.prototype.cleanDirty: cleanNode on every recorded cell
cleanDirtyOnlyDirty(nd, dirty) ==
    [n \in Range(dirty) |-> cleanNode(nd[n])]

cleanDirty(nd, dirty) ==
    [n \in Nodes |-> IF n \in Range(dirty) THEN cleanNode(nd[n]) ELSE nd[n]]

markDirtyNever(dirty, n) == dirty

markDirtyTwice(dirty, n) == Append(Append(dirty, n), n)

markDirty(dirty, n) == Append(dirty, n)

isWallNever(w, n) == FALSE

isWall(w, n) == w[n] = 0

getCost(w, n, fromNeighbor) ==
    IF fromNeighbor # Null /\ fromNeighbor[1] # n[1] /\ fromNeighbor[2] # n[2]
    THEN w[n] * DiagFactor
    ELSE w[n] * Unit

\* grid[x] && grid[x][y]
InGrid(x, y) == <<x, y>> \in Nodes

\* Graph.prototype.neighbors, in the order of the code
neighborsAllEight(diag, n) ==
    LET x == n[1]
        y == n[2]
        opt(a, b) == IF InGrid(a, b) THEN << <<a, b>> >> ELSE <<>>
    IN  opt(x - 1, y) \o opt(x + 1, y) \o opt(x, y - 1) \o opt(x, y + 1)
          \o opt(x - 1, y - 1) \o opt(x + 1, y - 1) \o opt(x - 1, y + 1) \o opt(x + 1, y + 1)

neighbors(diag, n) ==
    LET x == n[1]
        y == n[2]
        opt(a, b) == IF InGrid(a, b) THEN << <<a, b>> >> ELSE <<>>
        orth == opt(x - 1, y) \o opt(x + 1, y) \o opt(x, y - 1) \o opt(x, y + 1)
        dia  == opt(x - 1, y - 1) \o opt(x + 1, y - 1)
                  \o opt(x - 1, y + 1) \o opt(x + 1, y + 1)
    IN  IF diag THEN orth \o dia ELSE orth

\* astar.heuristics
manhattan(pos0, pos1) ==
    LET d1 == Abs(pos1[1] - pos0[1])
        d2 == Abs(pos1[2] - pos0[2])
    IN  (d1 + d2) * Unit

diagonalH(pos0, pos1) ==
    LET D  == Unit
        D2 == Sqrt2
        d1 == Abs(pos1[1] - pos0[1])
        d2 == Abs(pos1[2] - pos0[2])
    IN  (D * (d1 + d2)) + ((D2 - (2 * D)) * Min(d1, d2))

Heur(name, pos0, pos1) ==
    IF name = "manhattan" THEN manhattan(pos0, pos1) ELSE diagonalH(pos0, pos1)

\* ------------------------------------------------------------------ BinaryHeap
\* content is a JavaScript array: index i (from 0) is content[i + 1] here.
At(c, i) == c[i + 1]

Put(c, i, e) == [c EXCEPT ![i + 1] = e]

\* Array.prototype.indexOf
indexOf(c, e) ==
    IF \E i \in 1 .. Len(c) : c[i] = e
    THEN (CHOOSE i \in 1 .. Len(c) : c[i] = e /\ \A j \in 1 .. i - 1 : c[j] # e) - 1
    ELSE -1

Front(c) == SubSeq(c, 1, Len(c) - 1)

\* getHeap's scoreFunction
scoreFunction(nd, e) == nd[e].f

\* BinaryHeap.sinkDown: moves content[n] toward the root
RECURSIVE sinkDown(_, _, _)
sinkDown(c, n, nd) ==
    IF n > 0
    THEN LET parentN == ((n + 1) \div 2) - 1
             element == At(c, n)
             parent  == At(c, parentN)
         IN  IF scoreFunction(nd, element) < scoreFunction(nd, parent)
             THEN sinkDown(Put(Put(c, parentN, element), n, parent), parentN, nd)
             ELSE c
    ELSE c

\* BinaryHeap.bubbleUp: moves content[n] toward the leaves
RECURSIVE bubbleUpFirstChild(_, _, _)
bubbleUpFirstChild(c, n, nd) ==
    LET length    == Len(c)
        element   == At(c, n)
        elemScore == scoreFunction(nd, element)
        child2N   == (n + 1) * 2
        child1N   == child2N - 1
        swap      == IF child1N < length /\ scoreFunction(nd, At(c, child1N)) < elemScore
                     THEN child1N
                     ELSE IF child2N < length /\ scoreFunction(nd, At(c, child2N)) < elemScore
                          THEN child2N
                          ELSE -1
    IN  IF swap # -1
        THEN bubbleUpFirstChild(Put(Put(c, n, At(c, swap)), swap, element), swap, nd)
        ELSE c

RECURSIVE bubbleUp(_, _, _)
bubbleUp(c, n, nd) ==
    LET length    == Len(c)
        element   == At(c, n)
        elemScore == scoreFunction(nd, element)
        child2N   == (n + 1) * 2
        child1N   == child2N - 1
        swap1     == IF child1N < length /\ scoreFunction(nd, At(c, child1N)) < elemScore
                     THEN child1N
                     ELSE -1
        swap      == IF child2N < length
                        /\ scoreFunction(nd, At(c, child2N))
                             < (IF swap1 = -1 THEN elemScore
                                ELSE scoreFunction(nd, At(c, child1N)))
                     THEN child2N
                     ELSE swap1
    IN  IF swap # -1
        THEN bubbleUp(Put(Put(c, n, At(c, swap)), swap, element), swap, nd)
        ELSE c

\* BinaryHeap.push
push(c, element, nd) == sinkDown(Append(c, element), Len(c), nd)

\* BinaryHeap.pop: the returned element and the content left
popPeek(c, nd) == [result |-> IF Len(c) = 0 THEN Null ELSE c[1], content |-> c]

pop(c, nd) ==
    IF Len(c) = 0
    THEN [result |-> Null, content |-> c]
    ELSE LET endE == c[Len(c)]
             rest == Front(c)
         IN  [result  |-> c[1],
              content |-> IF Len(rest) > 0 THEN bubbleUp(Put(rest, 0, endE), 0, nd)
                          ELSE rest]

\* BinaryHeap.rescoreElement
rescoreElementPush(c, e, nd) == sinkDown(Append(c, e), Len(c), nd)

rescoreElement(c, e, nd) == sinkDown(c, indexOf(c, e), nd)

\* BinaryHeap.remove.  For an element that is in the heap, content[i] = end with
\* i = content.length appends to the array.  For an element that is not, indexOf
\* gives -1 and content[-1] = end sets a property that is no slot of the array:
\* sinkDown(-1) changes nothing, and bubbleUp(-1) finds end itself as first child
\* (content[-1]) and content[0] as second child, which it swaps with end.
remove(c, e, nd) ==
    IF Len(c) = 0
    THEN c
    ELSE LET i    == indexOf(c, e)
             endE == c[Len(c)]
             rest == Front(c)
         IN  IF i # Len(rest) - 1
             THEN IF i = -1
                  THEN IF scoreFunction(nd, endE) < scoreFunction(nd, e)
                       THEN rest
                       ELSE IF scoreFunction(nd, At(rest, 0)) < scoreFunction(nd, endE)
                            THEN bubbleUp(Put(rest, 0, endE), 0, nd)
                            ELSE rest
                  ELSE LET c2 == IF i = Len(rest) THEN Append(rest, endE)
                                 ELSE Put(rest, i, endE)
                       IN  IF scoreFunction(nd, endE) < scoreFunction(nd, e)
                           THEN sinkDown(c2, i, nd)
                           ELSE bubbleUp(c2, i, nd)
             ELSE rest

\* ------------------------------------------------------------------ astar
\* pathTo: follow parent links; start is the cell without parent
RECURSIVE pathToFrom(_, _, _)
pathToFrom(nd, curr, path) ==
    IF nd[curr].parent # Null
    THEN pathToFrom(nd, nd[curr].parent, <<curr>> \o path)
    ELSE path

pathToWithStart(nd, n) == pathToFrom(nd, n, <<>>) \o <<n>>

pathTo(nd, n) == pathToFrom(nd, n, <<>>)

\* if (!beenVisited || gScore < neighbor.g): the path found to neighbor is the best so far
foundBetterOnlyNew(beenVisited, gScore, g) == ~beenVisited

foundBetterOrEqual(beenVisited, gScore, g) == ~beenVisited \/ gScore <= g

foundBetter(beenVisited, gScore, g) == ~beenVisited \/ gScore < g

\* neighbor.f = neighbor.g + neighbor.h
fScoreOnlyG(g, h) == g

fScore(g, h) == g + h

\* The test that makes neighbor the closestNode: closer to end, or as close and cheaper
isCloserNoTie(nb, cl) == nb.h < cl.h

isCloserOrEqual(nb, cl) == nb.h <= cl.h

isCloser(nb, cl) == nb.h < cl.h \/ (nb.h = cl.h /\ nb.g < cl.g)

\* One pass of the body of the for loop over the neighbors of currentNode.
\* st holds what the loop changes: the cells, the heap, the dirty list, closestNode;
\* st.rescored records the calls of rescoreElement: the cell, whether it was in
\* the heap, and its f before and after the assignment that precedes the call.
visitNeighbor(st, currentNode, neighbor) ==
    IF st.node[neighbor].closed \/ isWall(weight, neighbor)
    THEN st
    ELSE LET nb          == st.node[neighbor]
             gScore      == st.node[currentNode].g + getCost(weight, neighbor, currentNode)
             beenVisited == nb.visited
         IN  IF foundBetter(beenVisited, gScore, nb.g)
             THEN LET hh  == IF nb.h # 0 THEN nb.h ELSE Heur(heuristic, neighbor, end)
                      nd2 == [st.node EXCEPT ![neighbor] =
                                 [f |-> fScore(gScore, hh), g |-> gScore, h |-> hh, visited |-> TRUE,
                                  closed |-> nb.closed, parent |-> currentNode]]
                      cl  == nd2[st.closestNode]
                  IN  [node        |-> nd2,
                       dirty       |-> markDirty(st.dirty, neighbor),
                       closestNode |-> IF closest /\ isCloser(nd2[neighbor], cl)
                                       THEN neighbor
                                       ELSE st.closestNode,
                       heap        |-> IF ~beenVisited
                                       THEN push(st.heap, neighbor, nd2)
                                       ELSE rescoreElement(st.heap, neighbor, nd2),
                       rescored    |-> IF ~beenVisited
                                       THEN st.rescored
                                       ELSE st.rescored \cup
                                              {[cell    |-> neighbor,
                                                inQueue |-> neighbor \in Range(st.heap),
                                                before  |-> nb.f,
                                                after   |-> nd2[neighbor].f]}]
             ELSE st

\* for (i = 0; i < neighbors.length; ++i): the passes in order, each on the state
\* the pass before left
RECURSIVE visitNeighbors(_, _, _, _)
visitNeighbors(st0, currentNode, nbrs, i) ==
    IF i > Len(nbrs)
    THEN st0
    ELSE CHOOSE r \in {visitNeighbors(visitNeighbor(st, currentNode, nbrs[i]),
                                      currentNode, nbrs, i + 1) : st \in {st0}} : TRUE

Args == [start |-> start, end |-> end, heuristic |-> heuristic, closest |-> closest]

\* Entry of astar.search(graph, start, end, options): graph.cleanDirty().  The
\* arguments are first read by the statements after it (Begin).  A call that
\* repeats the arguments of the call before it keeps that call in `last`.
Enter(again) ==
    /\ pc \in {"init", "returned"}
    /\ again => pc = "returned"
    /\ node' = cleanDirty(node, dirtyNodes)
    /\ dirtyNodes' = <<>>
    /\ last' = IF again THEN [args |-> Args, path |-> result, some |-> TRUE] ELSE None
    /\ start' = Null
    /\ end' = Null
    /\ heuristic' = "manhattan"
    /\ closest' = FALSE
    /\ content' = <<>>
    /\ closestNode' = Null
    /\ result' = <<>>
    /\ lastOp' = NoOp
    /\ pc' = "cleaned"
    /\ UNCHANGED <<operations, data, shape, weight, diagonal>>

\* options.heuristic, options.closest; openHeap = getHeap(); closestNode = start;
\* start.h = heuristic(start, end); graph.markDirty(start); openHeap.push(start)
Begin(s, e, hn, cl) ==
    /\ pc = "cleaned"
    /\ last.some => last.args = [start |-> s, end |-> e, heuristic |-> hn, closest |-> cl]
    /\ start' = s
    /\ end' = e
    /\ heuristic' = hn
    /\ closest' = cl
    /\ closestNode' = s
    /\ LET nd2 == [node EXCEPT ![s].h = Heur(hn, s, e)]
       IN  /\ node' = nd2
           /\ dirtyNodes' = markDirty(dirtyNodes, s)
           /\ content' = push(<<>>, s, nd2)
    /\ pc' = "loop"
    /\ UNCHANGED <<operations, data, shape, weight, diagonal, result, last, lastOp>>

\* One pass of the while loop that pops end: return pathTo(currentNode)
Found ==
    /\ pc = "loop"
    /\ Len(content) > 0
    /\ LET p == pop(content, node)
       IN  /\ p.result = end
           /\ content' = p.content
           /\ result' = pathTo(node, p.result)
    /\ pc' = "returned"
    /\ UNCHANGED <<operations, data, shape, weight, diagonal, node, dirtyNodes, closestNode, start, end,
                   heuristic, closest, last, lastOp>>

\* One pass of the while loop that pops another cell: close it, visit its neighbors
Expand ==
    /\ pc = "loop"
    /\ Len(content) > 0
    /\ \E p \in {pop(content, node)} :
          /\ p.result # end
          /\ \E st \in {visitNeighbors([node        |-> [node EXCEPT ![p.result].closed = TRUE],
                                        dirty       |-> dirtyNodes,
                                        closestNode |-> closestNode,
                                        heap        |-> p.content,
                                        rescored    |-> {}],
                                       p.result, neighbors(diagonal, p.result), 1)} :
                /\ node' = st.node
                /\ dirtyNodes' = st.dirty
                /\ closestNode' = st.closestNode
                /\ content' = st.heap
                /\ lastOp' = [name |-> "expand", arg |-> p.result, ret |-> st.rescored]
    /\ UNCHANGED <<operations, data, shape, weight, diagonal, start, end, heuristic, closest, pc, result,
                   last>>

\* The open heap is empty: return pathTo(closestNode) or []
Exhausted ==
    /\ pc = "loop"
    /\ Len(content) = 0
    /\ result' = IF closest THEN pathTo(node, closestNode) ELSE <<>>
    /\ pc' = "returned"
    /\ UNCHANGED <<operations, data, shape, weight, diagonal, node, dirtyNodes, content, closestNode, start,
                   end, heuristic, closest, last, lastOp>>

\* new Graph(gridIn, {diagonal: d}) on a rectangular matrix of weights
Init ==
    /\ shape = <<MaxX, MaxY>>
    /\ weight \in [Cells(shape) -> Weights]
    /\ Cardinality({n \in Nodes : weight[n] > 1}) <= MaxHeavy
    /\ diagonal \in BOOLEAN
    /\ node = [n \in Nodes |-> cleanNode([visited |-> FALSE])]
    /\ dirtyNodes = <<>>
    /\ content = <<>>
    /\ closestNode = Null
    /\ start = Null
    /\ end = Null
    /\ heuristic = "manhattan"
    /\ closest = FALSE
    /\ pc = "init"
    /\ result = <<>>
    /\ last = None
    /\ operations = <<>>
    /\ data = NoData
    /\ lastOp = NoOp

Next ==
    \/ \E again \in BOOLEAN : Enter(again)
    \/ \E s \in Nodes, e \in Nodes, hn \in {"manhattan", "diagonal"}, cl \in BOOLEAN :
          Begin(s, e, hn, cl)
    \/ Found
    \/ Expand
    \/ Exhausted

Spec == Init /\ [][Next]_vars

\* new Graph(gridIn, {diagonal: d}) on a wider matrix with at most one wall and
\* a few heavier cells
InitWide ==
    /\ shape = <<MaxX, MaxWideY>>
    /\ weight \in [Cells(shape) -> WideWeights]
    /\ Cardinality({n \in Nodes : weight[n] > 1}) <= MaxHeavy + 1
    /\ Cardinality({n \in Nodes : weight[n] = 0}) <= 1
    /\ diagonal \in BOOLEAN
    /\ node = [n \in Nodes |-> cleanNode([visited |-> FALSE])]
    /\ dirtyNodes = <<>>
    /\ content = <<>>
    /\ closestNode = Null
    /\ start = Null
    /\ end = Null
    /\ heuristic = "manhattan"
    /\ closest = FALSE
    /\ pc = "init"
    /\ result = <<>>
    /\ last = None
    /\ operations = <<>>
    /\ data = NoData
    /\ lastOp = NoOp

\* One search on each graph, without the closest option
NextWide ==
    \/ pc = "init" /\ Enter(FALSE)
    \/ \E s \in Nodes, e \in Nodes, hn \in {"manhattan", "diagonal"} : Begin(s, e, hn, FALSE)
    \/ Found
    \/ Expand
    \/ Exhausted

SpecWide == InitWide /\ [][NextWide]_vars

\* ------------------------------------------------------------------ the constructor
\* The matrices gridIn: sequences of rows, each a sequence of weights; the rows
\* need not have the same length
Rows == UNION {[1 .. k -> GridInWeights] : k \in 0 .. MaxRowLen}

Matrices == UNION {[1 .. k -> Rows] : k \in 0 .. MaxRows}

\* new Graph(gridIn, {diagonal: d}): one GridNode(x, y, row[y]) per entry of every
\* row, whatever the rows' lengths and the weights, then init().  Nothing in the
\* constructor throws for these matrices.
Graph(gridIn, d) ==
    /\ pc = "new"
    /\ shape' = <<Len(gridIn), IF Len(gridIn) > 0 THEN Len(gridIn[1]) ELSE 0>>
    /\ weight' = [n \in UNION {{<<x - 1, y - 1>> : y \in 1 .. Len(gridIn[x])} :
                                 x \in 1 .. Len(gridIn)}
                     |-> gridIn[n[1] + 1][n[2] + 1]]
    /\ diagonal' = d
    /\ node' = [n \in DOMAIN weight' |-> cleanNode([visited |-> FALSE])]
    /\ dirtyNodes' = <<>>
    /\ lastOp' = [name |-> "Graph", arg |-> gridIn, ret |-> Null]
    /\ pc' = "init"
    /\ UNCHANGED <<operations, data, content, closestNode, start, end, heuristic, closest, result, last>>

\* No graph yet
GraphInit ==
    /\ shape = <<0, 0>>
    /\ weight = [n \in {} |-> 0]
    /\ diagonal = FALSE
    /\ node = [n \in {} |-> 0]
    /\ dirtyNodes = <<>>
    /\ content = <<>>
    /\ closestNode = Null
    /\ start = Null
    /\ end = Null
    /\ heuristic = "manhattan"
    /\ closest = FALSE
    /\ pc = "new"
    /\ result = <<>>
    /\ last = None
    /\ operations = <<>>
    /\ data = NoData
    /\ lastOp = NoOp

\* The constructor, then searches on the graph it produced
GraphNext ==
    \/ \E gridIn \in Matrices, d \in BOOLEAN : Graph(gridIn, d)
    \/ Next

GraphSpec == GraphInit /\ [][GraphNext]_vars

\* ------------------------------------------------------------------ the heap alone
\* A BinaryHeap built by getHeap() and driven directly: its elements are the
\* first MaxHeap cells of the graph, scored by their field f.
HeapElems == {n \in Nodes : n[1] * shape[2] + n[2] < MaxHeap}

Scores == 0 .. MaxScore

\* element.f = s; heap.push(element)
HeapPush(n, s) ==
    /\ pc = "heap"
    /\ n \notin Range(content)
    /\ node' = [node EXCEPT ![n].f = s]
    /\ content' = push(content, n, node')
    /\ lastOp' = [name |-> "push", arg |-> n, ret |-> Null]
    /\ UNCHANGED <<operations, data, shape, weight, diagonal, dirtyNodes, closestNode, start, end, heuristic,
                   closest, pc, result, last>>

\* heap.pop()
HeapPop ==
    /\ pc = "heap"
    /\ content' = pop(content, node).content
    /\ lastOp' = [name |-> "pop", arg |-> Null, ret |-> pop(content, node).result]
    /\ UNCHANGED <<operations, data, shape, weight, diagonal, node, dirtyNodes, closestNode, start, end,
                   heuristic, closest, pc, result, last>>

\* element.f = s, a lower score; heap.rescoreElement(element)
HeapRescore(n, s) ==
    /\ pc = "heap"
    /\ n \in Range(content)
    /\ s < node[n].f
    /\ node' = [node EXCEPT ![n].f = s]
    /\ content' = rescoreElement(content, n, node')
    /\ lastOp' = [name |-> "rescore", arg |-> n, ret |-> Null]
    /\ UNCHANGED <<operations, data, shape, weight, diagonal, dirtyNodes, closestNode, start, end, heuristic,
                   closest, pc, result, last>>

\* heap.remove(element), element in the heap
HeapRemove(n) ==
    /\ pc = "heap"
    /\ n \in Range(content)
    /\ content' = remove(content, n, node)
    /\ lastOp' = [name |-> "remove", arg |-> n, ret |-> Null]
    /\ UNCHANGED <<operations, data, shape, weight, diagonal, node, dirtyNodes, closestNode, start, end,
                   heuristic, closest, pc, result, last>>

\* element.f = s; heap.remove(element), element not in the heap
HeapRemoveAbsent(n, s) ==
    /\ pc = "heap"
    /\ n \notin Range(content)
    /\ node' = [node EXCEPT ![n].f = s]
    /\ content' = remove(content, n, node')
    /\ lastOp' = [name |-> "remove-absent", arg |-> n, ret |-> Null]
    /\ UNCHANGED <<operations, data, shape, weight, diagonal, dirtyNodes, closestNode, start, end, heuristic,
                   closest, pc, result, last>>

\* getHeap(): an empty heap
HeapInit ==
    /\ shape = <<MaxX, MaxY>>
    /\ weight = [n \in Cells(shape) |-> 1]
    /\ diagonal = FALSE
    /\ node = [n \in Nodes |-> cleanNode([visited |-> FALSE])]
    /\ dirtyNodes = <<>>
    /\ content = <<>>
    /\ closestNode = Null
    /\ start = Null
    /\ end = Null
    /\ heuristic = "manhattan"
    /\ closest = FALSE
    /\ pc = "heap"
    /\ result = <<>>
    /\ last = None
    /\ operations = <<>>
    /\ data = NoData
    /\ lastOp = NoOp

HeapNext ==
    \/ \E n \in HeapElems, s \in Scores : HeapPush(n, s)
    \/ HeapPop
    \/ \E n \in HeapElems, s \in Scores : HeapRescore(n, s)
    \/ \E n \in HeapElems : HeapRemove(n)
    \/ \E n \in HeapElems, s \in Scores : HeapRemoveAbsent(n, s)

HeapSpec == HeapInit /\ [][HeapNext]_vars

\* ------------------------------------------------------------------ the manager
\* An operation {run, terminate} is [id, kind]: id numbers the objects that
\* addOperation creates.  The operations of setup are of two kinds: "once" runs
\* db.set(flag, true) and terminates when db.get(flag) is true; "forever" has
\* a terminator that returns false.
Kinds == {"once", "forever"}

\* `this` inside the function that forEach's callback calls plainly: the global
\* object (undefined in strict code), which is no operation
This == [id |-> 0, kind |-> "global"]

\* db.get(k) of an operation's flag: null (FALSE here) when the key is not set
get(d, k) == k \in d.flags

\* db.set(k, true)
set(d, k) == [d EXCEPT !.flags = @ \cup {k}]

\* operation.terminate()
terminate(op, d) == op.kind = "once" /\ get(d, op.id)

\* operation.run()
run(op, d) == IF op.kind = "once" THEN set(d, op.id) ELSE d

\* manager.removeOperation: indexOf, then splice(idx, 1) when found
removeOperation(ops, operation) ==
    LET idx == indexOf(ops, operation)
    IN  IF idx # -1
        THEN SubSeq(ops, 1, idx) \o SubSeq(ops, idx + 2, Len(ops))
        ELSE ops

\* The callback of forEach on the element at index i: st holds the operations,
\* db.data, the operations run and those whose terminator returned true.
callback(st, i) ==
    LET operation == At(st.ops, i)
    IN  IF terminate(operation, st.data)
        THEN [st EXCEPT !.ops = removeOperation(st.ops, This),
                        !.terminated = @ \cup {operation}]
        ELSE [st EXCEPT !.data = run(operation, st.data),
                        !.ran = Append(@, operation)]

\* Array.prototype.forEach: the indices below the length at the call, in order,
\* skipping those the array no longer has
RECURSIVE forEach(_, _, _)
forEach(st0, i, len) ==
    IF i >= len
    THEN st0
    ELSE CHOOSE r \in {forEach(IF i < Len(st.ops) THEN callback(st, i) ELSE st, i + 1, len) :
                         st \in {st0}} : TRUE

\* manager.addOperation(operation, terminator)
addOperation(kind) ==
    /\ pc = "sketch"
    /\ Len(operations) < MaxOps
    /\ operations' = Append(operations, [id |-> Len(operations) + 1, kind |-> kind])
    /\ lastOp' = [name |-> "addOperation", arg |-> {}, ret |-> <<>>]
    /\ UNCHANGED <<data, shape, weight, diagonal, node, dirtyNodes, content, closestNode,
                   start, end, heuristic, closest, pc, result, last>>

\* manager.runOperations(): the first call sets drawIsRun and returns; later
\* calls go through the operations.  lastOp keeps the operations whose
\* terminator returned true (arg) and those run, in order (ret).
runOperations ==
    /\ pc = "sketch"
    /\ IF ~data.drawIsRun
       THEN /\ data' = [data EXCEPT !.drawIsRun = TRUE]
            /\ operations' = operations
            /\ lastOp' = [name |-> "runOperations", arg |-> {}, ret |-> <<>>]
       ELSE \E st \in {forEach([ops |-> operations, data |-> data, ran |-> <<>>,
                                 terminated |-> {}], 0, Len(operations))} :
                /\ data' = st.data
                /\ operations' = st.ops
                /\ lastOp' = [name |-> "runOperations", arg |-> st.terminated, ret |-> st.ran]
    /\ UNCHANGED <<shape, weight, diagonal, node, dirtyNodes, content, closestNode,
                   start, end, heuristic, closest, pc, result, last>>

\* The script loaded: db.data holds an empty operations list
HarnessInit ==
    /\ shape = <<MaxX, MaxY>>
    /\ weight = [n \in Cells(shape) |-> 1]
    /\ diagonal = FALSE
    /\ node = [n \in Nodes |-> cleanNode([visited |-> FALSE])]
    /\ dirtyNodes = <<>>
    /\ content = <<>>
    /\ closestNode = Null
    /\ start = Null
    /\ end = Null
    /\ heuristic = "manhattan"
    /\ closest = FALSE
    /\ pc = "sketch"
    /\ result = <<>>
    /\ last = None
    /\ operations = <<>>
    /\ data = NoData
    /\ lastOp = NoOp

\* setup (and any later caller) adds operations; draw calls runOperations
HarnessNext ==
    \/ \E kind \in Kinds : addOperation(kind)
    \/ runOperations

HarnessSpec == HarnessInit /\ [][HarnessNext]_vars

\* ------------------------------------------------------------------ graph facts
\* b is a graph neighbor of a: another cell of the grid one step away, along a
\* row or a column or, with diagonal movement, along a diagonal
GraphNbr(a, b) ==
    /\ a \in Nodes
    /\ b \in Nodes
    /\ a # b
    /\ Abs(a[1] - b[1]) <= 1
    /\ Abs(a[2] - b[2]) <= 1
    /\ diagonal \/ a[1] = b[1] \/ a[2] = b[2]

\* The cells reachable from s by steps that enter non-wall cells
Grow(S) == S \cup {b \in Nodes : weight[b] # 0 /\ \E a \in S : GraphNbr(a, b)}

RECURSIVE ReachFrom(_)
ReachFrom(S) ==
    CHOOSE r \in {IF T = S THEN S ELSE ReachFrom(T) : T \in {Grow(S)}} : TRUE

Reach(s) == ReachFrom({s})

\* The cost of a path that does not exist
Inf == 0 - 1

\* Exhaustive search: the least total getCost of a path from each cell to e that
\* enters non-wall cells only (Inf when there is none), by relaxation until
\* nothing changes.  A table is a set of pairs <<cell, cost>>.
Lookup(d, c) == (CHOOSE p \in d : p[1] = c)[2]

Least(S) == IF S = {} THEN Inf ELSE CHOOSE v \in S : \A u \in S : v <= u

RelaxOnce(d, e) ==
    {<<c, IF c = e THEN 0
          ELSE Least({getCost(weight, p[1], c) + p[2] :
                        p \in {q \in d : GraphNbr(c, q[1]) /\ weight[q[1]] # 0 /\ q[2] # Inf}})>> :
       c \in Nodes}

RECURSIVE Relax(_, _)
Relax(d, e) ==
    CHOOSE r \in {IF d2 = d THEN d ELSE Relax(d2, e) : d2 \in {RelaxOnce(d, e)}} : TRUE

MinCostTable(e) == Relax({<<c, IF c = e THEN 0 ELSE Inf>> : c \in Nodes}, e)

MinCost(s, e) == Lookup(MinCostTable(e), s)

\* The sum over the steps of a path from s of getCost of the entered cell
RECURSIVE PathCost(_, _, _)
PathCost(s, path, i) ==
    IF i > Len(path)
    THEN 0
    ELSE getCost(weight, path[i], IF i = 1 THEN s ELSE path[i - 1]) + PathCost(s, path, i + 1)

\* path leads from s to its last cell by graph steps, without s itself
IsWalk(s, path) ==
    /\ Len(path) > 0
    /\ s \notin Range(path)
    /\ GraphNbr(s, path[1])
    /\ \A i \in 1 .. Len(path) - 1 : GraphNbr(path[i], path[i + 1])

Returned == pc = "returned"

\* ------------------------------------------------------------------ claims

\* C1: whenever start # end and end is reachable from start through non-wall
\* cells, the returned sequence is non-empty, does not contain start, ends with
\* end, starts with a graph neighbor of start, and its consecutive cells are
\* graph neighbors.
C1_PathReachesEnd ==
    (Returned /\ start # end /\ end \in Reach(start))
        => (IsWalk(start, result) /\ result[Len(result)] = end)

C1_Witness ==
    /\ Returned
    /\ start # end
    /\ end \in Reach(start)
    /\ Len(result) >= 3
    /\ \E n \in Nodes : weight[n] = 0

\* h never exceeds the least cost to end, at start and at every non-wall cell
\* from which end can be reached
Admissible ==
    \A p \in MinCostTable(end) :
        ((p[1] = start \/ weight[p[1]] # 0) /\ p[2] # Inf) => Heur(heuristic, p[1], end) <= p[2]

ReachedEnd == Returned /\ Len(result) > 0 /\ result[Len(result)] = end

\* h is 0 at end and never drops by more than the cost of the step, over the
\* steps that enter non-wall cells
Consistent ==
    /\ Heur(heuristic, end, end) = 0
    /\ \A a \in Nodes, b \in Nodes :
          (GraphNbr(a, b) /\ weight[b] # 0)
              => Heur(heuristic, a, end) <= getCost(weight, b, a) + Heur(heuristic, b, end)

\* C2 as claimed: whenever the heuristic is admissible, the cost of the returned
\* path (the sum of getCost over its steps) is at most the least cost of any
\* path from start to end through non-wall cells.
C2_Original ==
    (ReachedEnd /\ Admissible) => PathCost(start, result, 1) <= MinCost(start, end)

\* C2 (amended): whenever the heuristic is consistent, the cost of the returned
\* path is at most the least cost of any path from start to end through
\* non-wall cells.
C2_OptimalIfConsistent ==
    (ReachedEnd /\ Consistent) => PathCost(start, result, 1) <= MinCost(start, end)

C2_Witness ==
    /\ ReachedEnd
    /\ Consistent
    /\ Len(result) * Unit > manhattan(start, end)
    /\ \E n \in Nodes : weight[n] > 1 /\ node[n].closed

NoWalls == \A n \in Nodes : weight[n] > 0

\* C3: on a grid without walls, an orthogonal-only search returns as many cells
\* as the Manhattan distance between start and end.
C3_ManhattanLength ==
    (Returned /\ NoWalls /\ ~diagonal) => Len(result) * Unit = manhattan(start, end)

UnitWeights == \A n \in Nodes : weight[n] = 1

\* C3 (amended): on a grid whose cells all have weight 1, an orthogonal-only
\* search returns as many cells as the Manhattan distance between start and end.
C3_UnitManhattanLength ==
    (Returned /\ UnitWeights /\ ~diagonal) => Len(result) * Unit = manhattan(start, end)

C3_Witness ==
    /\ Returned
    /\ UnitWeights
    /\ ~diagonal
    /\ Len(result) = 3
    /\ heuristic = "diagonal"

\* C4: no cell of weight 0 is in a returned path, and no cell of weight 0
\* reached as a neighbor is scored, marked, put in the open heap or closed.
C4_WallsUntouched ==
    /\ \A i \in 1 .. Len(result) : weight[result[i]] # 0
    /\ \A n \in Nodes :
          (weight[n] = 0 /\ n # start)
              => (IsClean(node[n]) /\ n \notin Range(content) /\ n \notin Range(dirtyNodes))

C4_Witness ==
    /\ Returned
    /\ closest
    /\ Len(result) > 0
    /\ \E n \in Nodes, c \in Nodes :
          weight[n] = 0 /\ n # start /\ node[c].closed /\ GraphNbr(c, n)

\* C5: when end cannot be reached from start and closest is unset, the search
\* returns the empty sequence.
C5_EmptyWhenUnreachable ==
    (Returned /\ ~closest /\ end \notin Reach(start)) => result = <<>>

C5_Witness ==
    /\ Returned
    /\ ~closest
    /\ end \notin Reach(start)
    /\ weight[end] # 0
    /\ Cardinality({n \in Nodes : node[n].closed}) >= 3

\* c is, among the cells reachable from start, one of least heuristic distance
\* to end and, among those, of least g
IsClosest(c) ==
    /\ c \in Reach(start)
    /\ \A r \in Reach(start) :
          \/ Heur(heuristic, c, end) < Heur(heuristic, r, end)
          \/ (Heur(heuristic, c, end) = Heur(heuristic, r, end) /\ node[c].g <= node[r].g)

ClosestCase == Returned /\ closest /\ start # end /\ end \notin Reach(start)

\* C6 as claimed: in closest mode with start # end and end unreachable, the
\* returned path is non-empty and ends at the reachable cell of least heuristic
\* distance to end, ties broken by least g.
C6_Original ==
    ClosestCase => (Len(result) > 0 /\ IsClosest(result[Len(result)]))

\* C6 (amended): in closest mode with start # end and end unreachable, the
\* returned path leads to the cell of least heuristic distance to end (ties
\* broken by least g) among start and the cells reachable from it; the path is
\* empty exactly when that cell is start, which is when no reachable cell is
\* closer to end than start.
C6_ClosestOrStart ==
    ClosestCase =>
        /\ IsClosest(IF result = <<>> THEN start ELSE result[Len(result)])
        /\ result # <<>> => IsWalk(start, result)
        /\ result = <<>> <=>
              ~ \E r \in Reach(start) : Heur(heuristic, r, end) < Heur(heuristic, start, end)

C6_Witness ==
    /\ ClosestCase
    /\ Len(result) >= 2
    /\ \E r \in Reach(start) :
          /\ r # result[Len(result)]
          /\ Heur(heuristic, r, end) = Heur(heuristic, result[Len(result)], end)
          /\ node[r].g > node[result[Len(result)]].g

\* C7: right after cleanDirty at the start of a search every cell of the graph
\* is clean, whatever searches ran before; and at all times every cell whose
\* transient fields are not clean is in the dirty list.
C7_CleanAtStart ==
    /\ pc = "cleaned" => \A n \in Nodes : IsClean(node[n])
    /\ \A n \in Nodes : ~IsClean(node[n]) => n \in Range(dirtyNodes)

C7_Witness ==
    /\ pc = "cleaned"
    /\ last.some
    /\ Len(last.path) >= 3

\* C8: a search that repeats the arguments of the search before it, on the same
\* graph, returns the same cells in the same order.
C8_SameTwice ==
    (Returned /\ last.some) => result = last.path

C8_Witness ==
    /\ Returned
    /\ last.some
    /\ Len(result) >= 3
    /\ closest

\* Every element's score is at least its parent's score in the content array
HeapOrdered(c, nd) ==
    \A i \in 1 .. Len(c) - 1 :
        scoreFunction(nd, At(c, ((i + 1) \div 2) - 1)) <= scoreFunction(nd, At(c, i))

\* C9: after any pushes, pops and rescoreElement calls that follow a lowered
\* score, the content array is in min-heap order, and a pop on a non-empty heap
\* returns an element of least score and removes exactly that element.
C9_HeapOrder ==
    [][ /\ HeapOrdered(content', node')
        /\ (lastOp'.name = "pop" /\ Len(content) > 0)
              => /\ lastOp'.ret \in Range(content)
                 /\ \A e \in Range(content) :
                       scoreFunction(node, lastOp'.ret) <= scoreFunction(node, e)
                 /\ Range(content') = Range(content) \ {lastOp'.ret}
                 /\ Len(content') = Len(content) - 1 ]_vars

C9_Witness ==
    /\ lastOp.name = "pop"
    /\ Len(content) >= 3
    /\ scoreFunction(node, lastOp.ret) < scoreFunction(node, content[1])
    /\ scoreFunction(node, content[1]) < scoreFunction(node, content[Len(content)])

\* C10: remove(item) with item in the heap leaves a heap without item, with
\* every other element still in it once, one element shorter, in min-heap order.
C10_RemovePresent ==
    [][ lastOp'.name = "remove"
          => /\ lastOp'.arg \notin Range(content')
             /\ Range(content') = Range(content) \ {lastOp'.arg}
             /\ Len(content') = Len(content) - 1
             /\ HeapOrdered(content', node') ]_vars

\* C11: remove(item) with item not in the heap leaves the content array as it
\* was: the same elements in the same order.
C11_RemoveAbsentNoOp ==
    [][ lastOp'.name = "remove-absent" => content' = content ]_vars

\* gridIn has rows of differing length, or a negative weight
Malformed(gridIn) ==
    \/ \E i \in 1 .. Len(gridIn), j \in 1 .. Len(gridIn) : Len(gridIn[i]) # Len(gridIn[j])
    \/ \E i \in 1 .. Len(gridIn) : \E k \in 1 .. Len(gridIn[i]) : gridIn[i][k] < 0

\* C12: the constructor called with a malformed matrix fails: it produces no
\* graph, so no search can follow on it.
C12_MalformedRejected ==
    [][ (pc = "new" /\ lastOp'.name = "Graph" /\ Malformed(lastOp'.arg))
          => pc' = "rejected" ]_vars

\* The number of entries of the dirty list that are the cell n
Occ(n) == Cardinality({i \in 1 .. Len(dirtyNodes) : dirtyNodes[i] = n})

Searching == pc \in {"loop", "returned"}

\* C13 as claimed: between two cleanDirty calls each cell appears at most once
\* in the dirty list.
C13_DirtyAtMostOnce ==
    \A n \in Nodes : Occ(n) <= 1

\* C13 (amended): between two cleanDirty calls the dirty list holds start
\* exactly once and every other cell once for each time its score was set, which
\* is at most once per expanded neighbor of the cell; a cell is in the list at
\* all exactly when it is start or was visited.
C13_DirtyOncePerScoring ==
    /\ ~Searching => dirtyNodes = <<>>
    /\ Searching =>
          \A n \in Nodes :
              /\ n = start => Occ(n) = 1
              /\ n # start =>
                    /\ Occ(n) <= Cardinality({c \in Nodes : node[c].closed /\ GraphNbr(c, n)})
                    /\ Occ(n) >= 1 <=> node[n].visited

C13_Witness ==
    /\ Returned
    /\ \E n \in Nodes : Occ(n) >= 2 /\ n \in Range(result)

AtLoop == pc = "loop"

InQueue(n) == n \in Range(content)

\* C14 as claimed: at every loop boundary a cell is in the priority queue
\* exactly when it has visited = true and closed = false, the start cell too.
C14_QueueIffOpenAll ==
    AtLoop => \A n \in Nodes : InQueue(n) <=> (node[n].visited /\ ~node[n].closed)

\* C14 (amended): at every loop boundary a cell other than start is in the
\* priority queue exactly when it has visited = true and closed = false; start
\* keeps visited = false and is in the queue exactly while it is not closed; no
\* cell is in the queue twice.
C14_QueueIffOpen ==
    AtLoop =>
        /\ \A n \in Nodes \ {start} : InQueue(n) <=> (node[n].visited /\ ~node[n].closed)
        /\ ~node[start].visited
        /\ InQueue(start) <=> ~node[start].closed
        /\ Cardinality(Range(content)) = Len(content)

C14_Witness ==
    /\ AtLoop
    /\ node[start].closed
    /\ Len(content) >= 2
    /\ \E n \in Nodes \ {start} : node[n].closed
    /\ \E n \in Nodes \ {start} : ~node[n].visited /\ weight[n] # 0

C16_RescoreAfterDecrease ==
    lastOp.name = "expand" =>
        \A r \in lastOp.ret : r.inQueue /\ r.after < r.before

C16_Witness ==
    /\ lastOp.name = "expand"
    /\ \E r \in lastOp.ret : r.cell # content[1] /\ r.after < r.before
    /\ Len(content) >= 2

\* The cells extracted and expanded so far
Closed == {n \in Nodes : node[n].closed}

\* C17: in one search a pass of the while loop extracts a cell that was never
\* extracted before and inserts only cells that were never inserted before, so
\* no cell is in the queue twice; a closed cell stays closed with its g, f and
\* parent; each pass that does not return closes one more cell, so there are
\* at most as many extractions as cells.
C17_OnceEach ==
    [][ AtLoop =>
          /\ Len(content) > 0 =>
                /\ ~node[content[1]].closed
                /\ pc' = "loop" => Closed' = Closed \cup {content[1]}
          /\ \A n \in Range(content') \ Range(content) :
                ~node[n].visited /\ ~node[n].closed /\ n # start /\ node'[n].visited
          /\ Cardinality(Range(content')) = Len(content')
          /\ \A n \in Nodes :
                /\ node[n].visited => node'[n].visited
                /\ node[n].closed =>
                      /\ node'[n].closed
                      /\ node'[n].g = node[n].g
                      /\ node'[n].f = node[n].f
                      /\ node'[n].parent = node[n].parent
          /\ Cardinality(Closed) + Len(content) <= Cardinality(Nodes) ]_vars

C17_Witness ==
    /\ AtLoop
    /\ Cardinality(Closed) >= 3
    /\ Len(content) >= 2
    /\ lastOp.name = "expand"
    /\ lastOp.ret # {}

\* Following parent links from n reaches start without meeting a cell of seen
\* or a cell met on the way twice
RECURSIVE ReachesStart(_, _)
ReachesStart(n, seen) ==
    IF n = start
    THEN TRUE
    ELSE IF node[n].parent = Null \/ node[n].parent \in seen \cup {n}
         THEN FALSE
         ELSE ReachesStart(node[n].parent, seen \cup {n})

\* C18: during and after a search the parent links form a tree rooted at start:
\* start has no parent, a cell that was not visited has none, every visited
\* cell other than start has a parent that is a closed graph neighbor of it, and
\* the parent links from it lead to start without repeating a cell.
C18_ParentTree ==
    Searching =>
        /\ node[start].parent = Null
        /\ \A n \in Nodes \ {start} :
              IF node[n].visited
              THEN /\ node[n].parent \in Nodes
                   /\ node[node[n].parent].closed
                   /\ GraphNbr(node[n].parent, n)
                   /\ ReachesStart(n, {})
              ELSE node[n].parent = Null

C18_Witness ==
    /\ AtLoop
    /\ lastOp.name = "expand"
    /\ node[lastOp.arg].parent # Null
    /\ \E r \in lastOp.ret : node[r.cell].parent = lastOp.arg

\* f = g + h with h the heuristic distance of the cell to end
Scored(n) ==
    /\ node[n].h = Heur(heuristic, n, end)
    /\ node[n].f = node[n].g + node[n].h

\* C19 as claimed: during a search every cell in the priority queue, start
\* included, has f = g + h with h its heuristic distance to end.
C19_QueueScoredAll ==
    AtLoop => \A n \in Range(content) : Scored(n)

\* C19 (amended): during a search every cell in the priority queue other than
\* start has f = g + h with h its heuristic distance to end; start has that h,
\* g = 0 and f = 0.
C19_QueueScored ==
    AtLoop =>
        /\ \A n \in Range(content) \ {start} : Scored(n)
        /\ node[start].h = Heur(heuristic, start, end)
        /\ node[start].g = 0
        /\ node[start].f = 0

C19_Witness ==
    /\ AtLoop
    /\ node[start].closed
    /\ Len(content) >= 2
    /\ node[start].h > 0
    /\ \E n \in Range(content) : node[n].h > 0 /\ node[n].g > Unit

\* No cell among start and the visited cells has a smaller h than c, or the
\* same h and a smaller g
LexMin(c) ==
    \A n \in {start} \cup {v \in Nodes : node[v].visited} :
        /\ ~(node[n].h < node[c].h)
        /\ ~(node[n].h = node[c].h /\ node[n].g < node[c].g)

\* path is the chain of parent links from start to c, without start
IsChainTo(c, path) ==
    IF c = start
    THEN path = <<>>
    ELSE /\ Len(path) > 0
         /\ path[Len(path)] = c
         /\ node[path[1]].parent = start
         /\ \A i \in 2 .. Len(path) : node[path[i]].parent = path[i - 1]

\* C20: the pass that finds the open heap empty in closest mode returns the
\* chain of parent links of closestNode, and closestNode is start or a visited
\* cell such that no cell among them has a smaller h, or the same h and a
\* smaller g.
C20_ClosestIsLexMin ==
    [][ (AtLoop /\ Len(content) = 0 /\ closest) =>
          /\ closestNode = start \/ node[closestNode].visited
          /\ LexMin(closestNode)
          /\ IsChainTo(closestNode, result') ]_vars

C20_Witness ==
    /\ Returned
    /\ closest
    /\ start # end
    /\ ~node[end].visited
    /\ Len(result) >= 2
    /\ closestNode = result[Len(result)]
    /\ \E n \in Nodes : /\ node[n].visited
                         /\ node[n].h = node[closestNode].h
                         /\ node[n].g > node[closestNode].g

\* C21: in a search with diagonal movement on a grid of unit weights, the
\* diagonal heuristic of every cell with respect to end is at most the least
\* total getCost of a path from that cell to end.
C21_DiagonalAdmissible ==
    (Searching /\ diagonal /\ UnitWeights /\ heuristic = "diagonal") =>
        \A a \in Nodes : diagonalH(a, end) <= MinCost(a, end)

\* C22: after a runOperations call, every operation whose terminator returned
\* true in it is no longer in the operations list; the operations whose
\* terminator returned false were run once each, in registration order, and
\* are still in the list; the first call runs no operation.
C22_TerminatedRemoved ==
    [][ lastOp'.name = "runOperations" =>
          LET Kept(op) == op \notin lastOp'.arg
          IN  IF data.drawIsRun
              THEN /\ \A op \in lastOp'.arg : op \notin Range(operations')
                   /\ lastOp'.ret = SelectSeq(operations, Kept)
                   /\ \A op \in Range(lastOp'.ret) : op \in Range(operations')
              ELSE lastOp'.ret = <<>> /\ lastOp'.arg = {} ]_vars

====
